---- MODULE Spec2Model ----
(***************************************************************************)
(* Model of the ExplainedNRS trainer (modules/trainer/nc_trainer.py) and   *)
(* of the distributed helpers of modules/utils/general_utils.py.           *)
(*                                                                         *)
(* Four specifications share the variables below; each drives one part of  *)
(* the program and leaves the other parts in their initial state:          *)
(*   SpecTrain   NCTrainer._train_epoch, epoch after epoch                 *)
(*   SpecGather  gather_dict on process_num processes                      *)
(*   SpecTopic   NCTrainer.topic_evaluation on one process                 *)
(*   SpecBatch   load_batch_data as called by NCTrainer.run_model          *)
(***************************************************************************)
EXTENDS Integers, Sequences, FiniteSets, TLC

VARIABLES
    \* ---- _train_epoch ----
    len_epoch,      \* self.len_epoch = len(train_loader) taken in __init__
    yields,         \* number of batches the loader iterable yields this epoch
    epoch,          \* argument of the running (or last) _train_epoch call
    tpc,            \* position inside _train_epoch
    batch_idx,      \* enumerate() index of the batch being processed
    consumed,       \* batches taken from the iterable in this epoch
    optSteps,       \* optimizer.step() calls in this epoch
    iterTrace,      \* operations performed so far in the current iteration
    trainSteps,     \* every step index given to writer.set_step(.., "train")
    metricUpdates,  \* train_metrics.update("loss", ..) calls since reset()
    lrSteps,        \* lr_scheduler.step() calls
    \* ---- gather_dict ----
    distInit,       \* torch.distributed.is_initialized()
    gpc,            \* per process: position inside gather_dict
    dict_object,    \* per process: the mapping passed in (updated in place)
    partial,        \* per process: the mapping as it was when passed in
    contributed,    \* objects handed to all_gather_object so far, by rank
    \* ---- topic_evaluation ----
    is_main,        \* accelerator.is_main_process
    save_info,      \* config "save_topic_info"
    eval_method,    \* config "topic_evaluation_method" (a set, or None)
    coherence,      \* config "coherence_method"
    topic_dist,     \* matrix returned by get_topic_dist
    scanned,        \* directory entries of post_word_dict_dir already visited
    variantKeys,    \* keys of topic_dists in insertion order
    topic_dists,    \* key -> distribution
    evalPos,        \* number of variants already evaluated
    topic_scores,   \* the topic_scores local (None, or a set of score keys)
    topic_result,   \* the report being built
    fsWrites,       \* file-system writes performed, in order
    epc,            \* position inside topic_evaluation
    \* ---- load_batch_data ----
    device,         \* self.device
    batch,          \* the batch handed to run_model: field -> placement
    multi_gpu,      \* the multi_gpu argument
    loaded,         \* the batch_dict local of run_model after line 43
    sameObject,     \* TRUE when the result is the very object passed in
    bpc             \* position of the caller

trainVars == <<len_epoch, yields, epoch, tpc, batch_idx, consumed, optSteps,
               iterTrace, trainSteps, metricUpdates, lrSteps>>
gatherVars == <<gpc, dict_object, partial, contributed>>
topicVars == <<is_main, save_info, eval_method, coherence, topic_dist, scanned,
               variantKeys, topic_dists, evalPos, topic_scores, topic_result,
               fsWrites, epc>>
batchVars == <<device, batch, multi_gpu, loaded, sameObject, bpc>>
vars == <<trainVars, distInit, gatherVars, topicVars, batchVars>>

\* What each part of the program leaves alone.
notTrainVars == <<distInit, gatherVars, topicVars, batchVars>>
notGatherVars == <<trainVars, topicVars, batchVars>>
notTopicVars == <<trainVars, distInit, gatherVars, batchVars>>
notBatchVars == <<trainVars, gatherVars, topicVars>>

None == "None"

-----------------------------------------------------------------------------
(* Bounds of the model *)

MaxLen == 2        \* largest len(train_loader)
MaxExtra == 2      \* how many batches beyond len_epoch the iterable may yield
MaxEpochs == 2     \* epochs driven
NProc == 3         \* processes of the distributed job (process_num)
NKeys == 2         \* item ids that may appear in a partial mapping
NVocab == 2        \* words of data_loader.word_dict
NTopics == 1       \* rows of the topic distribution

-----------------------------------------------------------------------------
(* NCTrainer._train_epoch *)

\* Mutant of After: the optimizer steps before the gradients are zeroed.
AfterStepFirst(op) ==
    CASE op = "fetch"          -> "step"
      [] op = "step"           -> "zero_grad"
      [] op = "zero_grad"      -> "run_model"
      [] op = "run_model"      -> "backward"
      [] op = "backward"       -> "set_step"
      [] op = "set_step"       -> "update_metrics"
      [] op = "update_metrics" -> "check_break"

\* Statement that follows op in the body of the for loop.
After(op) ==
    CASE op = "fetch"          -> "zero_grad"
      [] op = "zero_grad"      -> "run_model"
      [] op = "run_model"      -> "backward"
      [] op = "backward"       -> "step"
      [] op = "step"           -> "set_step"
      [] op = "set_step"       -> "update_metrics"
      [] op = "update_metrics" -> "check_break"

\* The epoch loop of the base trainer calls _train_epoch with 1, 2, 3, ...
NextEpochArg(e) == e + 1

\* The step index of line 79.
StepIndex(e, n, b) == (e - 1) * n + b

InitTrainIdle ==
    /\ yields = 0
    /\ epoch = 0
    /\ tpc = "idle"
    /\ batch_idx = 0
    /\ consumed = 0
    /\ optSteps = 0
    /\ iterTrace = <<>>
    /\ trainSteps = <<>>
    /\ metricUpdates = 0
    /\ lrSteps = 0

InitTrain ==
    /\ len_epoch \in 1..MaxLen
    /\ InitTrainIdle

\* _train_epoch(epoch) is entered: lines 69-72 reset the metrics and open the
\* iterable, which will yield some number of batches.
TrainEpochBegin ==
    /\ UNCHANGED notTrainVars
    /\ tpc = "idle"
    /\ epoch < MaxEpochs
    /\ epoch' = NextEpochArg(epoch)
    /\ \E y \in 0..(len_epoch + MaxExtra) : yields' = y
    /\ metricUpdates' = 0
    /\ consumed' = 0
    /\ optSteps' = 0
    /\ batch_idx' = 0
    /\ iterTrace' = <<>>
    /\ tpc' = "fetch"
    /\ UNCHANGED <<len_epoch, trainSteps, lrSteps>>

\* for batch_idx, batch_dict in bar: the next batch, or the end of the iterable.
Fetch ==
    /\ UNCHANGED notTrainVars
    /\ tpc = "fetch"
    /\ IF consumed < yields
       THEN /\ batch_idx' = consumed
            /\ consumed' = consumed + 1
            /\ iterTrace' = <<>>
            /\ tpc' = After("fetch")
       ELSE /\ tpc' = "epoch_end"
            /\ UNCHANGED <<batch_idx, consumed, iterTrace>>
    /\ UNCHANGED <<len_epoch, yields, epoch, optSteps, trainSteps,
                   metricUpdates, lrSteps>>

ZeroGrad ==
    /\ UNCHANGED notTrainVars
    /\ tpc = "zero_grad"
    /\ iterTrace' = Append(iterTrace, "zero_grad")
    /\ tpc' = After("zero_grad")
    /\ UNCHANGED <<len_epoch, yields, epoch, batch_idx, consumed, optSteps,
                   trainSteps, metricUpdates, lrSteps>>

RunModel ==
    /\ UNCHANGED notTrainVars
    /\ tpc = "run_model"
    /\ iterTrace' = Append(iterTrace, "run_model")
    /\ tpc' = After("run_model")
    /\ UNCHANGED <<len_epoch, yields, epoch, batch_idx, consumed, optSteps,
                   trainSteps, metricUpdates, lrSteps>>

Backward ==
    /\ UNCHANGED notTrainVars
    /\ tpc = "backward"
    /\ iterTrace' = Append(iterTrace, "backward")
    /\ tpc' = After("backward")
    /\ UNCHANGED <<len_epoch, yields, epoch, batch_idx, consumed, optSteps,
                   trainSteps, metricUpdates, lrSteps>>

OptimizerStep ==
    /\ UNCHANGED notTrainVars
    /\ tpc = "step"
    /\ optSteps' = optSteps + 1
    /\ iterTrace' = Append(iterTrace, "step")
    /\ tpc' = After("step")
    /\ UNCHANGED <<len_epoch, yields, epoch, batch_idx, consumed, trainSteps,
                   metricUpdates, lrSteps>>

SetStep ==
    /\ UNCHANGED notTrainVars
    /\ tpc = "set_step"
    /\ trainSteps' = Append(trainSteps, StepIndex(epoch, len_epoch, batch_idx))
    /\ iterTrace' = Append(iterTrace, "set_step")
    /\ tpc' = After("set_step")
    /\ UNCHANGED <<len_epoch, yields, epoch, batch_idx, consumed, optSteps,
                   metricUpdates, lrSteps>>

UpdateMetrics ==
    /\ UNCHANGED notTrainVars
    /\ tpc = "update_metrics"
    /\ metricUpdates' = metricUpdates + 1
    /\ iterTrace' = Append(iterTrace, "update_metrics")
    /\ tpc' = After("update_metrics")
    /\ UNCHANGED <<len_epoch, yields, epoch, batch_idx, consumed, optSteps,
                   trainSteps, lrSteps>>

\* if batch_idx == self.len_epoch: break
CheckBreak ==
    /\ UNCHANGED notTrainVars
    /\ tpc = "check_break"
    /\ tpc' = IF batch_idx = len_epoch THEN "epoch_end" ELSE "fetch"
    /\ UNCHANGED <<len_epoch, yields, epoch, batch_idx, consumed, optSteps,
                   iterTrace, trainSteps, metricUpdates, lrSteps>>

\* Lines 87-94: epoch metrics, validation, scheduler step, return log.
EpochEnd ==
    /\ UNCHANGED notTrainVars
    /\ tpc = "epoch_end"
    /\ lrSteps' = lrSteps + 1
    /\ tpc' = "idle"
    /\ UNCHANGED <<len_epoch, yields, epoch, batch_idx, consumed, optSteps,
                   iterTrace, trainSteps, metricUpdates>>

NextTrain ==
    \/ TrainEpochBegin
    \/ Fetch
    \/ ZeroGrad
    \/ RunModel
    \/ Backward
    \/ OptimizerStep
    \/ SetStep
    \/ UpdateMetrics
    \/ CheckBreak
    \/ EpochEnd

-----------------------------------------------------------------------------
(* gather_dict *)

Procs == 0..(NProc - 1)
Keys == 1..NKeys

\* A mapping is a function on a subset of Keys.  The value process p holds
\* for a key is p itself, so that copies held by different ranks differ.
DictsOf(p) == UNION {[S -> {p}] : S \in SUBSET Keys}

\* dict.update(other)
DictUpdate(d, other) ==
    [k \in (DOMAIN d) \cup (DOMAIN other) |->
        IF k \in DOMAIN other THEN other[k] ELSE d[k]]

\* Mutant of MergeRanks: range(process_num - 1), the last rank is left out.
RECURSIVE MergeRanksShort(_, _, _, _)
MergeRanksShort(d, dicts_object, i, n) ==
    IF i >= n - 1 THEN d
    ELSE MergeRanksShort(DictUpdate(d, dicts_object[i]), dicts_object, i + 1, n)

\* Mutant of MergeRanks: keys already present are kept (setdefault instead
\* of update), so the first writer wins.
RECURSIVE MergeRanksKeep(_, _, _, _)
MergeRanksKeep(d, dicts_object, i, n) ==
    IF i >= n THEN d
    ELSE MergeRanksKeep(DictUpdate(dicts_object[i], d), dicts_object, i + 1, n)

\* for i in range(process_num): dict_object.update(dicts_object[i])
\* from index i on.
RECURSIVE MergeRanks(_, _, _, _)
MergeRanks(d, dicts_object, i, n) ==
    IF i >= n THEN d
    ELSE MergeRanks(DictUpdate(d, dicts_object[i]), dicts_object, i + 1, n)

\* Mutant of UsesCollectives: the collective branch is never taken.
UsesCollectivesNever == FALSE

\* if torch.distributed.is_initialized():
UsesCollectives == distInit

\* torch.distributed.barrier() lets a process through once every process
\* of the group has entered it.
BarrierOpen == \A q \in Procs : gpc[q] \in {"barrier", "all_gather", "returned"}

\* all_gather_object completes once every rank has contributed its object.
GatherComplete == DOMAIN contributed = Procs

InitGatherIdle ==
    /\ gpc = [p \in Procs |-> "idle"]
    /\ dict_object = [p \in Procs |-> <<>>]
    /\ partial = [p \in Procs |-> <<>>]
    /\ contributed = <<>>

InitGather ==
    /\ distInit \in BOOLEAN
    /\ gpc = [p \in Procs |-> "idle"]
    /\ partial \in [Procs -> UNION {DictsOf(p) : p \in Procs}]
    /\ \A p \in Procs : partial[p] \in DictsOf(p)
    /\ dict_object = partial
    /\ contributed = <<>>

\* Process p calls gather_dict(dict_object, process_num).  Without an
\* initialised process group the mapping is returned as it is.
Invoke(p) ==
    /\ UNCHANGED notGatherVars
    /\ gpc[p] = "idle"
    /\ gpc' = [gpc EXCEPT ![p] = IF UsesCollectives THEN "barrier" ELSE "returned"]
    /\ UNCHANGED <<distInit, dict_object, partial, contributed>>

\* Process p leaves the barrier and hands its mapping to all_gather_object.
PassBarrier(p) ==
    /\ UNCHANGED notGatherVars
    /\ gpc[p] = "barrier"
    /\ BarrierOpen
    /\ gpc' = [gpc EXCEPT ![p] = "all_gather"]
    /\ contributed' = [q \in (DOMAIN contributed) \cup {p} |->
                          IF q = p THEN dict_object[p] ELSE contributed[q]]
    /\ UNCHANGED <<distInit, dict_object, partial>>

\* all_gather_object fills dicts_object; the loop merges it rank by rank into
\* dict_object, which is returned.
GatherReturn(p) ==
    /\ UNCHANGED notGatherVars
    /\ gpc[p] = "all_gather"
    /\ GatherComplete
    /\ dict_object' = [dict_object EXCEPT
                          ![p] = MergeRanks(dict_object[p], contributed, 0, NProc)]
    /\ gpc' = [gpc EXCEPT ![p] = "returned"]
    /\ UNCHANGED <<distInit, partial, contributed>>

NextGather ==
    \/ \E p \in Procs : Invoke(p)
    \/ \E p \in Procs : PassBarrier(p)
    \/ \E p \in Procs : GatherReturn(p)

-----------------------------------------------------------------------------
(* load_batch_data and NCTrainer.run_model *)

Fields == {"news", "mask"}
Placements == {"cpu", "cuda:0", "cuda:1"}
Devices == {"cuda:0", "cuda:1"}

\* Every batch carries "label" and any of the other fields.
Batches == UNION {[S \cup {"label"} -> Placements] : S \in SUBSET Fields}

\* Mutant of LoadBatchData: the process group is not consulted.
LoadBatchDataFlagOnly(batch_dict, dev, flag, initialized) ==
    IF flag
    THEN [data |-> batch_dict, same |-> TRUE]
    ELSE [data |-> [k \in DOMAIN batch_dict |-> dev], same |-> FALSE]

\* load_batch_data: the batch itself, or a new mapping with every value
\* moved to the device by v.to(device).
LoadBatchData(batch_dict, dev, flag, initialized) ==
    IF initialized /\ flag
    THEN [data |-> batch_dict, same |-> TRUE]
    ELSE [data |-> [k \in DOMAIN batch_dict |-> dev], same |-> FALSE]

InitBatchIdle ==
    /\ device = "cuda:0"
    /\ batch = [k \in {"label"} |-> "cpu"]
    /\ multi_gpu = TRUE
    /\ loaded = batch
    /\ sameObject = TRUE
    /\ bpc = "idle"

InitBatch ==
    /\ distInit \in BOOLEAN
    /\ device \in Devices
    /\ batch \in Batches
    /\ multi_gpu = TRUE
    /\ loaded = batch
    /\ sameObject = TRUE
    /\ bpc = "idle"

\* _train_epoch line 75: run_model(batch_dict, self.model), multi_gpu
\* keeps its default.
CallFromTrain ==
    /\ UNCHANGED notBatchVars
    /\ bpc = "idle"
    /\ multi_gpu' = TRUE
    /\ bpc' = "run_model"
    /\ UNCHANGED <<distInit, device, batch, loaded, sameObject>>

\* evaluate line 102: run_model(batch_dict, model, multi_gpu=False).
CallFromEvaluate ==
    /\ UNCHANGED notBatchVars
    /\ bpc = "idle"
    /\ multi_gpu' = FALSE
    /\ bpc' = "run_model"
    /\ UNCHANGED <<distInit, device, batch, loaded, sameObject>>

\* run_model line 43.
LoadBatch ==
    /\ UNCHANGED notBatchVars
    /\ bpc = "run_model"
    /\ LET r == LoadBatchData(batch, device, multi_gpu, distInit)
       IN /\ loaded' = r.data
          /\ sameObject' = r.same
    /\ bpc' = "loaded"
    /\ UNCHANGED <<distInit, device, batch, multi_gpu>>

\* run_model lines 44-51: forward pass, loss and out_dict.
Forward ==
    /\ UNCHANGED notBatchVars
    /\ bpc = "loaded"
    /\ bpc' = "done"
    /\ UNCHANGED <<distInit, device, batch, multi_gpu, loaded, sameObject>>

NextBatch ==
    \/ CallFromTrain
    \/ CallFromEvaluate
    \/ LoadBatch
    \/ Forward

-----------------------------------------------------------------------------
(* NCTrainer.topic_evaluation *)

Vocab == 1..NVocab
Topics == 1..NTopics

\* A file name is the sequence of its parts; the extension ".json" is a part.
OriginalKey == <<"original">>
FileNames == {<<"a", ".json">>, <<"original", ".json">>, <<"notes", ".txt">>}

\* path.name.endswith(".json")
EndsWithJson(name) == name[Len(name)] = ".json"

\* path.name.replace(".json", "")
VariantName(name) == SelectSeq(name, LAMBDA part : part # ".json")

MethodNames == {"fast_eval", "slow_eval", "w2v_sim", "other"}
Recognized == {"fast_eval", "slow_eval", "w2v_sim"}
\* config.get("topic_evaluation_method", None) when the key is missing
NoneMethod == {None}

\* topic_dist_copy[:, removed_index] = 0 on a deep copy
ZeroColumns(dist, removed_index) ==
    [t \in DOMAIN dist |->
        [v \in DOMAIN dist[t] |-> IF v \in removed_index THEN 0 ELSE dist[t][v]]]

\* Mutant of MayWrite: every process writes.
MayWriteAnyProcess == save_info

\* config.get("save_topic_info", False) and accelerator.is_main_process
MayWrite == save_info /\ is_main

\* Entries returned by save_topic_info for the scores it persisted.
SavedEntries(scores, dist) ==
    [s \in scores |-> [how |-> "saved", of |-> dist]]

\* {m: np.round(np.mean(c), 4) for m, c in topic_scores.items()}
MeanEntries(scores, dist) ==
    [s \in scores |-> [how |-> "mean", of |-> dist]]

\* Mutant of ReportIsEmpty: the emptiness check is dropped.
ReportIsEmptyNever(result) == FALSE

\* not len(topic_result)
ReportIsEmpty(result) == DOMAIN result = {}

InitTopicIdle ==
    /\ is_main = TRUE
    /\ save_info = FALSE
    /\ eval_method = {}
    /\ coherence = {}
    /\ topic_dist = <<>>
    /\ scanned = {}
    /\ variantKeys = <<>>
    /\ topic_dists = <<>>
    /\ evalPos = 0
    /\ topic_scores = {}
    /\ topic_result = <<>>
    /\ fsWrites = <<>>
    /\ epc = "idle"

\* State after lines 121-135 and 145: configuration read, the distribution
\* obtained, topic_dists = {"original": topic_dist}.
InitTopic ==
    /\ is_main \in BOOLEAN
    /\ save_info \in BOOLEAN
    /\ eval_method \in (SUBSET MethodNames) \cup {NoneMethod}
    /\ coherence \in {{}, {"c_npmi"}}
    /\ topic_dist = [t \in Topics |-> [v \in Vocab |-> t + v]]
    /\ scanned = {}
    /\ variantKeys = <<OriginalKey>>
    /\ topic_dists = [k \in {OriginalKey} |-> topic_dist]
    /\ evalPos = 0
    /\ topic_scores = {}
    /\ topic_result = <<>>
    /\ fsWrites = <<>>
    /\ epc = "scan"

DictPut(d, k, v) == [x \in (DOMAIN d) \cup {k} |-> IF x = k THEN v ELSE d[x]]

\* One entry of os.scandir(post_word_dict_dir): lines 137-144.
ScanEntry(name, post_word_dict) ==
    /\ UNCHANGED notTopicVars
    /\ epc = "scan"
    /\ name \notin scanned
    /\ scanned' = scanned \cup {name}
    /\ IF ~EndsWithJson(name)
       THEN UNCHANGED <<variantKeys, topic_dists>>
       ELSE LET removed_index == {v \in Vocab : v \notin post_word_dict}
                topic_dist_copy == ZeroColumns(topic_dist, removed_index)
                key == VariantName(name)
            IN /\ topic_dists' = DictPut(topic_dists, key, topic_dist_copy)
               /\ variantKeys' = IF key \in DOMAIN topic_dists
                                 THEN variantKeys
                                 ELSE Append(variantKeys, key)
    /\ UNCHANGED <<is_main, save_info, eval_method, coherence, topic_dist,
                   evalPos, topic_scores, topic_result, fsWrites, epc>>

\* The directory is exhausted (or post_word_dict_dir is None).
ScanDone ==
    /\ UNCHANGED notTopicVars
    /\ epc = "scan"
    /\ epc' = "eval"
    /\ UNCHANGED <<is_main, save_info, eval_method, coherence, topic_dist,
                   scanned, variantKeys, topic_dists, evalPos, topic_scores,
                   topic_result, fsWrites>>

\* One pass of the loop of lines 148-177 for the next key of topic_dists.
EvalVariant ==
    /\ UNCHANGED notTopicVars
    /\ epc = "eval"
    /\ evalPos < Len(variantKeys)
    /\ LET key == variantKeys[evalPos + 1]
           dist == topic_dists[key]
           w1 == IF MayWrite
                 THEN Append(fsWrites, <<"topic_list.txt", key>>)
                 ELSE fsWrites
       IN IF eval_method = NoneMethod
          THEN \* "fast_eval" in None raises TypeError
               /\ fsWrites' = w1
               /\ epc' = "raised"
               /\ UNCHANGED <<evalPos, topic_scores, topic_result>>
          ELSE LET fast == "fast_eval" \in eval_method
                   slow == "slow_eval" \in eval_method
                   s1 == IF fast THEN {<<key, "c_npmi">>} ELSE topic_scores
                   s2 == IF slow
                         THEN (IF coherence = {} THEN {} ELSE {<<key, "m">>})
                         ELSE s1
                   scored == (slow \/ fast) /\ s2 # {}
                   r1 == IF scored
                         THEN (IF MayWrite
                               THEN SavedEntries(s2, dist) @@ topic_result
                               ELSE MeanEntries(s2, dist) @@ topic_result)
                         ELSE topic_result
                   w2 == IF scored /\ MayWrite
                         THEN Append(w1, <<"topic_info", key>>)
                         ELSE w1
                   r2 == IF "w2v_sim" \in eval_method
                         THEN MeanEntries({<<key, "w2v_sim">>}, dist) @@ r1
                         ELSE r1
               IN /\ topic_scores' = s2
                  /\ topic_result' = r2
                  /\ fsWrites' = w2
                  /\ evalPos' = evalPos + 1
                  /\ epc' = epc
    /\ UNCHANGED <<is_main, save_info, eval_method, coherence, topic_dist,
                   scanned, variantKeys, topic_dists>>

\* Lines 178-180.
Finish ==
    /\ UNCHANGED notTopicVars
    /\ epc = "eval"
    /\ evalPos = Len(variantKeys)
    /\ epc' = IF ReportIsEmpty(topic_result) THEN "raised" ELSE "returned"
    /\ UNCHANGED <<is_main, save_info, eval_method, coherence, topic_dist,
                   scanned, variantKeys, topic_dists, evalPos, topic_scores,
                   topic_result, fsWrites>>

NextTopic ==
    \/ \E name \in FileNames, post_word_dict \in SUBSET Vocab :
           ScanEntry(name, post_word_dict)
    \/ ScanDone
    \/ EvalVariant
    \/ Finish

-----------------------------------------------------------------------------
(* Specifications *)

InitSpecTrain ==
    InitTrain /\ distInit = FALSE /\ InitGatherIdle /\ InitTopicIdle /\ InitBatchIdle

InitSpecGather ==
    InitGather /\ len_epoch = 1 /\ InitTrainIdle /\ InitTopicIdle /\ InitBatchIdle

InitSpecTopic ==
    /\ InitTopic /\ distInit = FALSE
    /\ len_epoch = 1 /\ InitTrainIdle /\ InitGatherIdle /\ InitBatchIdle

InitSpecBatch ==
    InitBatch /\ len_epoch = 1 /\ InitTrainIdle /\ InitGatherIdle /\ InitTopicIdle

SpecTrain == InitSpecTrain /\ [][NextTrain]_vars
SpecGather == InitSpecGather /\ [][NextGather]_vars
SpecTopic == InitSpecTopic /\ [][NextTopic]_vars
SpecBatch == InitSpecBatch /\ [][NextBatch]_vars

-----------------------------------------------------------------------------
(* Properties of _train_epoch (SpecTrain) *)

IterationOrder ==
    <<"zero_grad", "run_model", "backward", "step", "set_step", "update_metrics">>

IsPrefix(s, t) == Len(s) <= Len(t) /\ \A i \in 1..Len(s) : s[i] = t[i]

Stepped == \E i \in 1..Len(iterTrace) : iterTrace[i] = "step"

\* C1: in one call of _train_epoch at most len_epoch optimizer steps are
\* performed, and exactly len_epoch when the iterable yields at least
\* len_epoch batches.
C1_ExactlyLenEpochSteps ==
    /\ optSteps <= len_epoch
    /\ (tpc = "epoch_end" /\ yields >= len_epoch) => optSteps = len_epoch

\* C9: the operations of the running iteration are always an initial part of
\* zero_grad, run_model, backward, step, set_step, update_metrics; between
\* iterations the last one is complete; and there is exactly one optimizer
\* step per batch taken from the iterable.
C9_IterationOrder ==
    /\ IsPrefix(iterTrace, IterationOrder)
    /\ (tpc \in {"fetch", "epoch_end"} /\ consumed > 0) => iterTrace = IterationOrder
    /\ optSteps = IF consumed = 0 THEN 0
                  ELSE (consumed - 1) + (IF Stepped THEN 1 ELSE 0)
    /\ metricUpdates <= optSteps

C9_Witness ==
    /\ tpc = "epoch_end"
    /\ epoch = 2
    /\ consumed >= 2
    /\ optSteps = consumed
    /\ iterTrace = IterationOrder

\* C10: the step indices handed to set_step(.., "train") over the whole run
\* are strictly increasing.
C10_StepIndexIncreasing ==
    \A i \in 1..(Len(trainSteps) - 1) : trainSteps[i] < trainSteps[i + 1]

-----------------------------------------------------------------------------
(* Properties of gather_dict (SpecGather) *)

Disjoint ==
    \A p, q \in Procs :
        p # q => (DOMAIN partial[p]) \cap (DOMAIN partial[q]) = {}

AllKeys == UNION {DOMAIN partial[q] : q \in Procs}

Holders(k) == {q \in Procs : k \in DOMAIN partial[q]}

HighestHolder(k) == CHOOSE q \in Holders(k) : \A r \in Holders(k) : r <= q

\* C2: with pairwise disjoint partial mappings, the mapping a process gets
\* back holds exactly the keys of all partial mappings, each with the value
\* its owner passed in.
C2_DisjointUnion ==
    (distInit /\ Disjoint) =>
        \A p \in Procs :
            gpc[p] = "returned" =>
                /\ DOMAIN dict_object[p] = AllKeys
                /\ \A q \in Procs : \A k \in DOMAIN partial[q] :
                       dict_object[p][k] = partial[q][k]

C2_Witness ==
    /\ distInit
    /\ Disjoint
    /\ AllKeys = Keys
    /\ Cardinality({q \in Procs : partial[q] # <<>>}) >= 2
    /\ \A p \in Procs : gpc[p] = "returned"

\* C3: the value a process gets back for a key is the one passed in by the
\* highest rank that holds the key, and no key is lost or invented.
C3_HighestRankWins ==
    distInit =>
        \A p \in Procs :
            gpc[p] = "returned" =>
                /\ DOMAIN dict_object[p] = AllKeys
                /\ \A k \in AllKeys :
                       dict_object[p][k] = partial[HighestHolder(k)][k]

C3_Witness ==
    /\ distInit
    /\ \E p \in Procs : \E k \in DOMAIN partial[p] :
           /\ gpc[p] = "returned"
           /\ Cardinality(Holders(k)) >= 2
           /\ dict_object[p][k] # partial[p][k]

\* C4: in distributed execution, as long as some process has not invoked
\* gather_dict, no process has returned from it.
C4_Barrier ==
    (distInit /\ \E q \in Procs : gpc[q] = "idle") =>
        \A p \in Procs : gpc[p] # "returned"

C4_Witness ==
    /\ distInit
    /\ \E q \in Procs : gpc[q] = "idle"
    /\ Cardinality({p \in Procs : gpc[p] = "barrier"}) = NProc - 1

-----------------------------------------------------------------------------
(* Properties of load_batch_data (SpecBatch) *)

Transferred ==
    /\ ~sameObject
    /\ DOMAIN loaded = DOMAIN batch
    /\ \A k \in DOMAIN loaded : loaded[k] = device

Skipped == sameObject /\ loaded = batch

\* C8 as stated: with the flag true the transfer is skipped and the batch is
\* returned unchanged; with the flag false every field is moved to the device.
C8_FlagDecides ==
    bpc \in {"loaded", "done"} => IF multi_gpu THEN Skipped ELSE Transferred

\* C8 amended: the transfer is skipped exactly when the flag is true and the
\* process group is initialised; in every other case every field is moved.
C8_FlagAndGroupDecide ==
    bpc \in {"loaded", "done"} =>
        IF multi_gpu /\ distInit THEN Skipped ELSE Transferred

C8_Witness ==
    /\ bpc = "loaded"
    /\ multi_gpu
    /\ ~distInit
    /\ Transferred
    /\ \E k \in DOMAIN batch : batch[k] # device

-----------------------------------------------------------------------------
(* Properties of topic_evaluation (SpecTopic) *)

Ended == epc \in {"returned", "raised"}

NoRecognizedMethod ==
    eval_method = NoneMethod \/ eval_method \cap Recognized = {}

\* C5: a process that is not the main process performs no file-system write,
\* and it returns a report, computed by itself for every variant, whenever a
\* configured method produces scores.
C5_OnlyMainWrites ==
    ~is_main =>
        /\ fsWrites = <<>>
        /\ \A s \in DOMAIN topic_result : topic_result[s].how = "mean"
        /\ (Ended /\ ~NoRecognizedMethod /\ coherence # {}) =>
               /\ epc = "returned"
               /\ \A i \in 1..Len(variantKeys) :
                      \E s \in DOMAIN topic_result : s[1] = variantKeys[i]

C5_Witness ==
    /\ ~is_main
    /\ save_info
    /\ epc = "returned"
    /\ Len(variantKeys) >= 2
    /\ eval_method = {"fast_eval", "w2v_sim"}
    /\ fsWrites = <<>>

\* C6: no scan step changes a distribution already stored in topic_dists:
\* neither the one under "original" nor a variant built earlier.
C6_StoredVariantsUnchanged ==
    [][\A k \in DOMAIN topic_dists : topic_dists'[k] = topic_dists[k]]_vars

\* C7: without a recognized method topic_evaluation never returns, and ends
\* with an error; a returned report is never empty and at least one
\* recognized method is configured.
C7_FailsWithoutMethod ==
    /\ NoRecognizedMethod => (epc # "returned" /\ DOMAIN topic_result = {})
    /\ epc = "returned" => (DOMAIN topic_result # {} /\ ~NoRecognizedMethod)

C7_Witness ==
    /\ eval_method = {"other"}
    /\ epc = "raised"
    /\ evalPos = Len(variantKeys)
    /\ Len(variantKeys) >= 2

====
